---------------------------- MODULE Spec2Model ----------------------------
(***************************************************************************)
(* Model of generate_labels.py: the CableData record, CSV ingestion, the   *)
(* sheet grid layout and the generation run driven by main().              *)
(*                                                                         *)
(* A str is modelled as the sequence of the code points of its characters  *)
(* and a file as the sequence of its bytes, so that decoding, str.strip,    *)
(* str.split, str.replace, str.lower and the "in" test are computed         *)
(* character by character as Python computes them.  The empty string is    *)
(* the empty sequence << >>.                                               *)
(***************************************************************************)
EXTENDS Integers, Sequences, FiniteSets, TLC

VARIABLES
    \* ---- CableData life cycle (SpecRecord)
    rec,            \* the CableData object: its six fields
    \* ---- parse_csv (SpecParse)
    csvFile,        \* the input file: its bytes and whether open() succeeds
    parsed,         \* the list parse_csv returned
    parsePc,        \* "start" | "parsed"
    \* ---- create_multi_label_sheet (SpecGrid)
    gridArgs,       \* count, labels_per_row, label_width, label_height, spacing
    drawn,          \* the label origins drawn so far, in enumerate order
    \* ---- main / generate_all_labels (SpecRun)
    args,           \* the command line: csv_file (and whether it exists), --output,
                    \* --individual, --no-combined
    env,            \* the surroundings: makedirs outcome, the csv file, the
                    \* encoding of sys.stdout, the working directory
    pc,             \* position of the run
    cables,         \* the list parse_csv returned to generate_all_labels
    batches,        \* the batches computed at line 396
    next_i,         \* loop index: the next cable (individual) or batch (combined)
    fs,             \* output directory: file name -> content
    generated_files,\* the list the summary counts
    saveas_calls,   \* file names doc.saveas was called with, in order
    exit_status     \* process exit status once pc = "exited"

recVars == <<rec>>
parseVars == <<csvFile, parsed, parsePc>>
gridVars == <<gridArgs, drawn>>
runVars == <<args, env, pc, cables, batches, next_i, fs, generated_files,
             saveas_calls, exit_status>>
vars == <<recVars, parseVars, gridVars, runVars>>

-----------------------------------------------------------------------------
(* Bounds of the model *)

\* longest specification text, in chunks, given to CableData
MaxSpecChunks == 3

-----------------------------------------------------------------------------
(* Python str operations on character sequences *)

\* The characters a literal of the model is written with, in runs of
\* consecutive code points
CharRuns ==
    << [chars |-> "\t\n", first |-> 9],
       [chars |-> "\r", first |-> 13],
       [chars |-> " !\"#$%&'()*+,-./0123456789:;<=>?@ABCDEFGHIJKLMNOPQRSTUVWXYZ[\\]^_",
        first |-> 32],
       [chars |-> "abcdefghijklmnopqrstuvwxyz{|}~", first |-> 97] >>

CodePoint ==
    [c \in UNION { { SubSeq(CharRuns[r].chars, k, k) : k \in 1..Len(CharRuns[r].chars) } :
                      r \in 1..Len(CharRuns) } |->
        LET r == CHOOSE r \in 1..Len(CharRuns) :
                    \E k \in 1..Len(CharRuns[r].chars) : SubSeq(CharRuns[r].chars, k, k) = c
            k == CHOOSE k \in 1..Len(CharRuns[r].chars) : SubSeq(CharRuns[r].chars, k, k) = c
        IN CharRuns[r].first + k - 1]

\* ord(c): the code point of a character
ord(c) == CodePoint[c]

\* the str a literal denotes
Text(s) == [i \in 1..Len(s) |-> ord(SubSeq(s, i, i))]

\* The characters str.strip() and str.split() treat as whitespace, i.e. those
\* with str.isspace()
Whitespace ==
    {9, 10, 11, 12, 13, 28, 29, 30, 31, 32, 133, 160, 5760, 8192, 8193, 8194,
     8195, 8196, 8197, 8198, 8199, 8200, 8201, 8202, 8232, 8233, 8239, 8287, 12288}

RECURSIVE lstrip(_)
lstrip(s) ==
    IF s # << >> /\ Head(s) \in Whitespace THEN lstrip(Tail(s)) ELSE s

RECURSIVE rstrip(_)
rstrip(s) ==
    IF s # << >> /\ s[Len(s)] \in Whitespace
    THEN rstrip(SubSeq(s, 1, Len(s) - 1))
    ELSE s

\* str.strip(): leading and trailing whitespace removed
strip(s) == rstrip(lstrip(s))

\* sub in s
Contains(s, sub) ==
    \E i \in 1..(Len(s) - Len(sub) + 1) : SubSeq(s, i, i + Len(sub) - 1) = sub

\* s.startswith(p)
StartsWith(s, p) == Len(s) >= Len(p) /\ SubSeq(s, 1, Len(p)) = p

\* s.find(sub) for non-empty sub, counted from 1: the start of the leftmost
\* occurrence, 0 when there is none
find(s, sub) ==
    IF Contains(s, sub)
    THEN CHOOSE i \in 1..(Len(s) - Len(sub) + 1) :
            /\ SubSeq(s, i, i + Len(sub) - 1) = sub
            /\ \A j \in 1..(i - 1) : SubSeq(s, j, j + Len(sub) - 1) # sub
    ELSE 0

\* str.replace(old, new) for non-empty old: every non-overlapping occurrence,
\* scanning left to right
RECURSIVE replace(_, _, _)
replace(s, old, new) ==
    LET i == find(s, old) IN
    IF i = 0 THEN s
    ELSE SubSeq(s, 1, i - 1) \o new
            \o replace(SubSeq(s, i + Len(old), Len(s)), old, new)

\* str.split() with no argument: the maximal runs of non-whitespace
RECURSIVE SplitFrom(_, _, _)
SplitFrom(s, cur, acc) ==
    IF s = << >> THEN (IF cur # << >> THEN Append(acc, cur) ELSE acc)
    ELSE IF Head(s) \in Whitespace
         THEN SplitFrom(Tail(s), << >>, IF cur # << >> THEN Append(acc, cur) ELSE acc)
         ELSE SplitFrom(Tail(s), Append(cur, Head(s)), acc)

split(s) == SplitFrom(s, << >>, << >>)

\* sep.join(parts)
RECURSIVE join(_, _)
join(sep, parts) ==
    IF parts = << >> THEN << >>
    ELSE IF Len(parts) = 1 THEN parts[1]
    ELSE parts[1] \o sep \o join(sep, Tail(parts))

\* concatenation of parts[lo..hi]
RECURSIVE ConcatRange(_, _, _)
ConcatRange(parts, lo, hi) ==
    IF lo > hi THEN << >>
    ELSE IF lo = hi THEN parts[lo]
    ELSE LET mid == (lo + hi) \div 2
         IN ConcatRange(parts, lo, mid) \o ConcatRange(parts, mid + 1, hi)

\* concatenation of a sequence of texts
Concat(parts) == ConcatRange(parts, 1, Len(parts))

\* all sequences over S of length at most n
SeqUpTo(S, n) == UNION {[1..k -> S] : k \in 0..n}

-----------------------------------------------------------------------------
(* CableData *)

\* the literal 'mm' of line 34
mm == Text("mm")

\* CableData.__post_init__: size and type derived from specification; a
\* specification with no tokens leaves both fields as __init__ set them
PostInit(c) ==
    LET spec_parts == split(c.specification) IN
    IF spec_parts # << >>
    THEN [c EXCEPT !.size = IF Contains(spec_parts[1], mm) THEN spec_parts[1] ELSE << >>,
                   !.type = IF Len(spec_parts) > 1
                            THEN join(Text(" "), Tail(spec_parts)) ELSE << >>]
    ELSE c

\* the dataclass-generated __init__ followed by __post_init__
CableData(cable_id, specification, origin, destination, size, type) ==
    PostInit([cable_id |-> cable_id, specification |-> specification,
              origin |-> origin, destination |-> destination,
              size |-> size, type |-> type])

\* CableData(...) with size and type left at their defaults, as parse_csv calls it
NewCable(cable_id, specification, origin, destination) ==
    CableData(cable_id, specification, origin, destination, << >>, << >>)

\* ---- the inputs of SpecRecord
SpecChunks == { Text(" "), Text("4mm"), Text("CU"), Text(" PVC ") }
SpecTexts == { Concat(p) : p \in SeqUpTo(SpecChunks, MaxSpecChunks) }
\* values a caller may pass for size and type
DerivedArgs == { << >>, Text("X") }
SomeId == Text("K1")

\* a record as its constructor leaves it
RecInit ==
    \E s \in SpecTexts, sz \in DerivedArgs, ty \in DerivedArgs :
        rec = CableData(SomeId, s, << >>, << >>, sz, ty)

\* cable.specification = s: a plain attribute store, the dataclass is not
\* frozen and defines no setter, so nothing else changes
AssignSpecification ==
    \E s \in SpecTexts :
        /\ rec' = [rec EXCEPT !.specification = s]
        /\ UNCHANGED <<parseVars, gridVars, runVars>>

-----------------------------------------------------------------------------
(* parse_csv *)

\* longest origin / destination column, in chunks, of the one-row files
MaxFieldChunks == 3
\* most data rows of the files with several rows
MaxRows == 3

\* ---- str.lower() (line 70), with the character data of Unicode 14.0.0
\* <<first, last, step, delta>>: the characters first, first + step, ..., last
\* have the lowercase c + delta.  Not listed: 304, whose lowercase is two
\* characters, and 931, whose lowercase depends on its neighbours
LowerRanges == <<
    <<65, 90, 1, 32>>, <<192, 214, 1, 32>>, <<216, 222, 1, 32>>,
    <<256, 302, 2, 1>>, <<306, 310, 2, 1>>, <<313, 327, 2, 1>>,
    <<330, 374, 2, 1>>, <<376, 376, 1, -121>>, <<377, 381, 2, 1>>,
    <<385, 385, 1, 210>>, <<386, 388, 2, 1>>, <<390, 390, 1, 206>>,
    <<391, 391, 1, 1>>, <<393, 394, 1, 205>>, <<395, 395, 1, 1>>,
    <<398, 398, 1, 79>>, <<399, 399, 1, 202>>, <<400, 400, 1, 203>>,
    <<401, 401, 1, 1>>, <<403, 403, 1, 205>>, <<404, 404, 1, 207>>,
    <<406, 406, 1, 211>>, <<407, 407, 1, 209>>, <<408, 408, 1, 1>>,
    <<412, 412, 1, 211>>, <<413, 413, 1, 213>>, <<415, 415, 1, 214>>,
    <<416, 420, 2, 1>>, <<422, 422, 1, 218>>, <<423, 423, 1, 1>>,
    <<425, 425, 1, 218>>, <<428, 428, 1, 1>>, <<430, 430, 1, 218>>,
    <<431, 431, 1, 1>>, <<433, 434, 1, 217>>, <<435, 437, 2, 1>>,
    <<439, 439, 1, 219>>, <<440, 440, 1, 1>>, <<444, 444, 1, 1>>,
    <<452, 452, 1, 2>>, <<453, 453, 1, 1>>, <<455, 455, 1, 2>>,
    <<456, 456, 1, 1>>, <<458, 458, 1, 2>>, <<459, 475, 2, 1>>,
    <<478, 494, 2, 1>>, <<497, 497, 1, 2>>, <<498, 500, 2, 1>>,
    <<502, 502, 1, -97>>, <<503, 503, 1, -56>>, <<504, 542, 2, 1>>,
    <<544, 544, 1, -130>>, <<546, 562, 2, 1>>, <<570, 570, 1, 10795>>,
    <<571, 571, 1, 1>>, <<573, 573, 1, -163>>, <<574, 574, 1, 10792>>,
    <<577, 577, 1, 1>>, <<579, 579, 1, -195>>, <<580, 580, 1, 69>>,
    <<581, 581, 1, 71>>, <<582, 590, 2, 1>>, <<880, 882, 2, 1>>,
    <<886, 886, 1, 1>>, <<895, 895, 1, 116>>, <<902, 902, 1, 38>>,
    <<904, 906, 1, 37>>, <<908, 908, 1, 64>>, <<910, 911, 1, 63>>,
    <<913, 929, 1, 32>>, <<931, 939, 1, 32>>, <<975, 975, 1, 8>>,
    <<984, 1006, 2, 1>>, <<1012, 1012, 1, -60>>, <<1015, 1015, 1, 1>>,
    <<1017, 1017, 1, -7>>, <<1018, 1018, 1, 1>>, <<1021, 1023, 1, -130>>,
    <<1024, 1039, 1, 80>>, <<1040, 1071, 1, 32>>, <<1120, 1152, 2, 1>>,
    <<1162, 1214, 2, 1>>, <<1216, 1216, 1, 15>>, <<1217, 1229, 2, 1>>,
    <<1232, 1326, 2, 1>>, <<1329, 1366, 1, 48>>, <<4256, 4293, 1, 7264>>,
    <<4295, 4295, 1, 7264>>, <<4301, 4301, 1, 7264>>,
    <<5024, 5103, 1, 38864>>, <<5104, 5109, 1, 8>>, <<7312, 7354, 1, -3008>>,
    <<7357, 7359, 1, -3008>>, <<7680, 7828, 2, 1>>, <<7838, 7838, 1, -7615>>,
    <<7840, 7934, 2, 1>>, <<7944, 7951, 1, -8>>, <<7960, 7965, 1, -8>>,
    <<7976, 7983, 1, -8>>, <<7992, 7999, 1, -8>>, <<8008, 8013, 1, -8>>,
    <<8025, 8031, 2, -8>>, <<8040, 8047, 1, -8>>, <<8072, 8079, 1, -8>>,
    <<8088, 8095, 1, -8>>, <<8104, 8111, 1, -8>>, <<8120, 8121, 1, -8>>,
    <<8122, 8123, 1, -74>>, <<8124, 8124, 1, -9>>, <<8136, 8139, 1, -86>>,
    <<8140, 8140, 1, -9>>, <<8152, 8153, 1, -8>>, <<8154, 8155, 1, -100>>,
    <<8168, 8169, 1, -8>>, <<8170, 8171, 1, -112>>, <<8172, 8172, 1, -7>>,
    <<8184, 8185, 1, -128>>, <<8186, 8187, 1, -126>>, <<8188, 8188, 1, -9>>,
    <<8486, 8486, 1, -7517>>, <<8490, 8490, 1, -8383>>,
    <<8491, 8491, 1, -8262>>, <<8498, 8498, 1, 28>>, <<8544, 8559, 1, 16>>,
    <<8579, 8579, 1, 1>>, <<9398, 9423, 1, 26>>, <<11264, 11311, 1, 48>>,
    <<11360, 11360, 1, 1>>, <<11362, 11362, 1, -10743>>,
    <<11363, 11363, 1, -3814>>, <<11364, 11364, 1, -10727>>,
    <<11367, 11371, 2, 1>>, <<11373, 11373, 1, -10780>>,
    <<11374, 11374, 1, -10749>>, <<11375, 11375, 1, -10783>>,
    <<11376, 11376, 1, -10782>>, <<11378, 11378, 1, 1>>,
    <<11381, 11381, 1, 1>>, <<11390, 11391, 1, -10815>>,
    <<11392, 11490, 2, 1>>, <<11499, 11501, 2, 1>>, <<11506, 11506, 1, 1>>,
    <<42560, 42604, 2, 1>>, <<42624, 42650, 2, 1>>, <<42786, 42798, 2, 1>>,
    <<42802, 42862, 2, 1>>, <<42873, 42875, 2, 1>>,
    <<42877, 42877, 1, -35332>>, <<42878, 42886, 2, 1>>,
    <<42891, 42891, 1, 1>>, <<42893, 42893, 1, -42280>>,
    <<42896, 42898, 2, 1>>, <<42902, 42920, 2, 1>>,
    <<42922, 42922, 1, -42308>>, <<42923, 42923, 1, -42319>>,
    <<42924, 42924, 1, -42315>>, <<42925, 42925, 1, -42305>>,
    <<42926, 42926, 1, -42308>>, <<42928, 42928, 1, -42258>>,
    <<42929, 42929, 1, -42282>>, <<42930, 42930, 1, -42261>>,
    <<42931, 42931, 1, 928>>, <<42932, 42946, 2, 1>>,
    <<42948, 42948, 1, -48>>, <<42949, 42949, 1, -42307>>,
    <<42950, 42950, 1, -35384>>, <<42951, 42953, 2, 1>>,
    <<42960, 42960, 1, 1>>, <<42966, 42968, 2, 1>>, <<42997, 42997, 1, 1>>,
    <<65313, 65338, 1, 32>>, <<66560, 66599, 1, 40>>,
    <<66736, 66771, 1, 40>>, <<66928, 66964, 2, 39>>,
    <<66929, 66929, 1, 39>>, <<66931, 66931, 1, 39>>,
    <<66933, 66933, 1, 39>>, <<66935, 66935, 1, 39>>,
    <<66937, 66937, 1, 39>>, <<66941, 66941, 1, 39>>,
    <<66943, 66943, 1, 39>>, <<66945, 66945, 1, 39>>,
    <<66947, 66947, 1, 39>>, <<66949, 66949, 1, 39>>,
    <<66951, 66951, 1, 39>>, <<66953, 66953, 1, 39>>,
    <<66957, 66957, 1, 39>>, <<66959, 66959, 1, 39>>,
    <<66961, 66961, 1, 39>>, <<66965, 66965, 1, 39>>,
    <<68736, 68786, 1, 64>>, <<71840, 71871, 1, 32>>,
    <<93760, 93791, 1, 32>>, <<125184, 125217, 1, 34>> >>

\* the characters with the property Case_Ignorable, <<first, last>>
CaseIgnorable == <<
    <<39, 39>>, <<46, 46>>, <<58, 58>>, <<94, 94>>, <<96, 96>>, <<168, 168>>,
    <<173, 173>>, <<175, 175>>, <<180, 180>>, <<183, 184>>, <<688, 879>>,
    <<884, 885>>, <<890, 890>>, <<900, 901>>, <<903, 903>>, <<1155, 1161>>,
    <<1369, 1369>>, <<1375, 1375>>, <<1425, 1469>>, <<1471, 1471>>,
    <<1473, 1474>>, <<1476, 1477>>, <<1479, 1479>>, <<1524, 1524>>,
    <<1536, 1541>>, <<1552, 1562>>, <<1564, 1564>>, <<1600, 1600>>,
    <<1611, 1631>>, <<1648, 1648>>, <<1750, 1757>>, <<1759, 1768>>,
    <<1770, 1773>>, <<1807, 1807>>, <<1809, 1809>>, <<1840, 1866>>,
    <<1958, 1968>>, <<2027, 2037>>, <<2042, 2042>>, <<2045, 2045>>,
    <<2070, 2093>>, <<2137, 2139>>, <<2184, 2184>>, <<2192, 2193>>,
    <<2200, 2207>>, <<2249, 2306>>, <<2362, 2362>>, <<2364, 2364>>,
    <<2369, 2376>>, <<2381, 2381>>, <<2385, 2391>>, <<2402, 2403>>,
    <<2417, 2417>>, <<2433, 2433>>, <<2492, 2492>>, <<2497, 2500>>,
    <<2509, 2509>>, <<2530, 2531>>, <<2558, 2558>>, <<2561, 2562>>,
    <<2620, 2620>>, <<2625, 2626>>, <<2631, 2632>>, <<2635, 2637>>,
    <<2641, 2641>>, <<2672, 2673>>, <<2677, 2677>>, <<2689, 2690>>,
    <<2748, 2748>>, <<2753, 2757>>, <<2759, 2760>>, <<2765, 2765>>,
    <<2786, 2787>>, <<2810, 2815>>, <<2817, 2817>>, <<2876, 2876>>,
    <<2879, 2879>>, <<2881, 2884>>, <<2893, 2893>>, <<2901, 2902>>,
    <<2914, 2915>>, <<2946, 2946>>, <<3008, 3008>>, <<3021, 3021>>,
    <<3072, 3072>>, <<3076, 3076>>, <<3132, 3132>>, <<3134, 3136>>,
    <<3142, 3144>>, <<3146, 3149>>, <<3157, 3158>>, <<3170, 3171>>,
    <<3201, 3201>>, <<3260, 3260>>, <<3263, 3263>>, <<3270, 3270>>,
    <<3276, 3277>>, <<3298, 3299>>, <<3328, 3329>>, <<3387, 3388>>,
    <<3393, 3396>>, <<3405, 3405>>, <<3426, 3427>>, <<3457, 3457>>,
    <<3530, 3530>>, <<3538, 3540>>, <<3542, 3542>>, <<3633, 3633>>,
    <<3636, 3642>>, <<3654, 3662>>, <<3761, 3761>>, <<3764, 3772>>,
    <<3782, 3782>>, <<3784, 3789>>, <<3864, 3865>>, <<3893, 3893>>,
    <<3895, 3895>>, <<3897, 3897>>, <<3953, 3966>>, <<3968, 3972>>,
    <<3974, 3975>>, <<3981, 3991>>, <<3993, 4028>>, <<4038, 4038>>,
    <<4141, 4144>>, <<4146, 4151>>, <<4153, 4154>>, <<4157, 4158>>,
    <<4184, 4185>>, <<4190, 4192>>, <<4209, 4212>>, <<4226, 4226>>,
    <<4229, 4230>>, <<4237, 4237>>, <<4253, 4253>>, <<4348, 4348>>,
    <<4957, 4959>>, <<5906, 5908>>, <<5938, 5939>>, <<5970, 5971>>,
    <<6002, 6003>>, <<6068, 6069>>, <<6071, 6077>>, <<6086, 6086>>,
    <<6089, 6099>>, <<6103, 6103>>, <<6109, 6109>>, <<6155, 6159>>,
    <<6211, 6211>>, <<6277, 6278>>, <<6313, 6313>>, <<6432, 6434>>,
    <<6439, 6440>>, <<6450, 6450>>, <<6457, 6459>>, <<6679, 6680>>,
    <<6683, 6683>>, <<6742, 6742>>, <<6744, 6750>>, <<6752, 6752>>,
    <<6754, 6754>>, <<6757, 6764>>, <<6771, 6780>>, <<6783, 6783>>,
    <<6823, 6823>>, <<6832, 6862>>, <<6912, 6915>>, <<6964, 6964>>,
    <<6966, 6970>>, <<6972, 6972>>, <<6978, 6978>>, <<7019, 7027>>,
    <<7040, 7041>>, <<7074, 7077>>, <<7080, 7081>>, <<7083, 7085>>,
    <<7142, 7142>>, <<7144, 7145>>, <<7149, 7149>>, <<7151, 7153>>,
    <<7212, 7219>>, <<7222, 7223>>, <<7288, 7293>>, <<7376, 7378>>,
    <<7380, 7392>>, <<7394, 7400>>, <<7405, 7405>>, <<7412, 7412>>,
    <<7416, 7417>>, <<7468, 7530>>, <<7544, 7544>>, <<7579, 7679>>,
    <<8125, 8125>>, <<8127, 8129>>, <<8141, 8143>>, <<8157, 8159>>,
    <<8173, 8175>>, <<8189, 8190>>, <<8203, 8207>>, <<8216, 8217>>,
    <<8228, 8228>>, <<8231, 8231>>, <<8234, 8238>>, <<8288, 8292>>,
    <<8294, 8303>>, <<8305, 8305>>, <<8319, 8319>>, <<8336, 8348>>,
    <<8400, 8432>>, <<11388, 11389>>, <<11503, 11505>>, <<11631, 11631>>,
    <<11647, 11647>>, <<11744, 11775>>, <<11823, 11823>>, <<12293, 12293>>,
    <<12330, 12333>>, <<12337, 12341>>, <<12347, 12347>>, <<12441, 12446>>,
    <<12540, 12542>>, <<40981, 40981>>, <<42232, 42237>>, <<42508, 42508>>,
    <<42607, 42610>>, <<42612, 42621>>, <<42623, 42623>>, <<42652, 42655>>,
    <<42736, 42737>>, <<42752, 42785>>, <<42864, 42864>>, <<42888, 42890>>,
    <<42994, 42996>>, <<43000, 43001>>, <<43010, 43010>>, <<43014, 43014>>,
    <<43019, 43019>>, <<43045, 43046>>, <<43052, 43052>>, <<43204, 43205>>,
    <<43232, 43249>>, <<43263, 43263>>, <<43302, 43309>>, <<43335, 43345>>,
    <<43392, 43394>>, <<43443, 43443>>, <<43446, 43449>>, <<43452, 43453>>,
    <<43471, 43471>>, <<43493, 43494>>, <<43561, 43566>>, <<43569, 43570>>,
    <<43573, 43574>>, <<43587, 43587>>, <<43596, 43596>>, <<43632, 43632>>,
    <<43644, 43644>>, <<43696, 43696>>, <<43698, 43700>>, <<43703, 43704>>,
    <<43710, 43711>>, <<43713, 43713>>, <<43741, 43741>>, <<43756, 43757>>,
    <<43763, 43764>>, <<43766, 43766>>, <<43867, 43871>>, <<43881, 43883>>,
    <<44005, 44005>>, <<44008, 44008>>, <<44013, 44013>>, <<64286, 64286>>,
    <<64434, 64450>>, <<65024, 65039>>, <<65043, 65043>>, <<65056, 65071>>,
    <<65106, 65106>>, <<65109, 65109>>, <<65279, 65279>>, <<65287, 65287>>,
    <<65294, 65294>>, <<65306, 65306>>, <<65342, 65342>>, <<65344, 65344>>,
    <<65392, 65392>>, <<65438, 65439>>, <<65507, 65507>>, <<65529, 65531>>,
    <<66045, 66045>>, <<66272, 66272>>, <<66422, 66426>>, <<67456, 67461>>,
    <<67463, 67504>>, <<67506, 67514>>, <<68097, 68099>>, <<68101, 68102>>,
    <<68108, 68111>>, <<68152, 68154>>, <<68159, 68159>>, <<68325, 68326>>,
    <<68900, 68903>>, <<69291, 69292>>, <<69446, 69456>>, <<69506, 69509>>,
    <<69633, 69633>>, <<69688, 69702>>, <<69744, 69744>>, <<69747, 69748>>,
    <<69759, 69761>>, <<69811, 69814>>, <<69817, 69818>>, <<69821, 69821>>,
    <<69826, 69826>>, <<69837, 69837>>, <<69888, 69890>>, <<69927, 69931>>,
    <<69933, 69940>>, <<70003, 70003>>, <<70016, 70017>>, <<70070, 70078>>,
    <<70089, 70092>>, <<70095, 70095>>, <<70191, 70193>>, <<70196, 70196>>,
    <<70198, 70199>>, <<70206, 70206>>, <<70367, 70367>>, <<70371, 70378>>,
    <<70400, 70401>>, <<70459, 70460>>, <<70464, 70464>>, <<70502, 70508>>,
    <<70512, 70516>>, <<70712, 70719>>, <<70722, 70724>>, <<70726, 70726>>,
    <<70750, 70750>>, <<70835, 70840>>, <<70842, 70842>>, <<70847, 70848>>,
    <<70850, 70851>>, <<71090, 71093>>, <<71100, 71101>>, <<71103, 71104>>,
    <<71132, 71133>>, <<71219, 71226>>, <<71229, 71229>>, <<71231, 71232>>,
    <<71339, 71339>>, <<71341, 71341>>, <<71344, 71349>>, <<71351, 71351>>,
    <<71453, 71455>>, <<71458, 71461>>, <<71463, 71467>>, <<71727, 71735>>,
    <<71737, 71738>>, <<71995, 71996>>, <<71998, 71998>>, <<72003, 72003>>,
    <<72148, 72151>>, <<72154, 72155>>, <<72160, 72160>>, <<72193, 72202>>,
    <<72243, 72248>>, <<72251, 72254>>, <<72263, 72263>>, <<72273, 72278>>,
    <<72281, 72283>>, <<72330, 72342>>, <<72344, 72345>>, <<72752, 72758>>,
    <<72760, 72765>>, <<72767, 72767>>, <<72850, 72871>>, <<72874, 72880>>,
    <<72882, 72883>>, <<72885, 72886>>, <<73009, 73014>>, <<73018, 73018>>,
    <<73020, 73021>>, <<73023, 73029>>, <<73031, 73031>>, <<73104, 73105>>,
    <<73109, 73109>>, <<73111, 73111>>, <<73459, 73460>>, <<78896, 78904>>,
    <<92912, 92916>>, <<92976, 92982>>, <<92992, 92995>>, <<94031, 94031>>,
    <<94095, 94111>>, <<94176, 94177>>, <<94179, 94180>>, <<110576, 110579>>,
    <<110581, 110587>>, <<110589, 110590>>, <<113821, 113822>>,
    <<113824, 113827>>, <<118528, 118573>>, <<118576, 118598>>,
    <<119143, 119145>>, <<119155, 119170>>, <<119173, 119179>>,
    <<119210, 119213>>, <<119362, 119364>>, <<121344, 121398>>,
    <<121403, 121452>>, <<121461, 121461>>, <<121476, 121476>>,
    <<121499, 121503>>, <<121505, 121519>>, <<122880, 122886>>,
    <<122888, 122904>>, <<122907, 122913>>, <<122915, 122916>>,
    <<122918, 122922>>, <<123184, 123197>>, <<123566, 123566>>,
    <<123628, 123631>>, <<125136, 125142>>, <<125252, 125259>>,
    <<127995, 127999>>, <<917505, 917505>>, <<917536, 917631>>,
    <<917760, 917999>> >>

\* the cased characters, <<first, last>>
Cased == <<
    <<65, 90>>, <<97, 122>>, <<170, 170>>, <<181, 181>>, <<186, 186>>,
    <<192, 214>>, <<216, 246>>, <<248, 442>>, <<444, 447>>, <<452, 659>>,
    <<661, 696>>, <<704, 705>>, <<736, 740>>, <<837, 837>>, <<880, 883>>,
    <<886, 887>>, <<890, 893>>, <<895, 895>>, <<902, 902>>, <<904, 906>>,
    <<908, 908>>, <<910, 929>>, <<931, 1013>>, <<1015, 1153>>,
    <<1162, 1327>>, <<1329, 1366>>, <<1376, 1416>>, <<4256, 4293>>,
    <<4295, 4295>>, <<4301, 4301>>, <<4304, 4346>>, <<4349, 4351>>,
    <<5024, 5109>>, <<5112, 5117>>, <<7296, 7304>>, <<7312, 7354>>,
    <<7357, 7359>>, <<7424, 7615>>, <<7680, 7957>>, <<7960, 7965>>,
    <<7968, 8005>>, <<8008, 8013>>, <<8016, 8023>>, <<8025, 8025>>,
    <<8027, 8027>>, <<8029, 8029>>, <<8031, 8061>>, <<8064, 8116>>,
    <<8118, 8124>>, <<8126, 8126>>, <<8130, 8132>>, <<8134, 8140>>,
    <<8144, 8147>>, <<8150, 8155>>, <<8160, 8172>>, <<8178, 8180>>,
    <<8182, 8188>>, <<8305, 8305>>, <<8319, 8319>>, <<8336, 8348>>,
    <<8450, 8450>>, <<8455, 8455>>, <<8458, 8467>>, <<8469, 8469>>,
    <<8473, 8477>>, <<8484, 8484>>, <<8486, 8486>>, <<8488, 8488>>,
    <<8490, 8493>>, <<8495, 8500>>, <<8505, 8505>>, <<8508, 8511>>,
    <<8517, 8521>>, <<8526, 8526>>, <<8544, 8575>>, <<8579, 8580>>,
    <<9398, 9449>>, <<11264, 11492>>, <<11499, 11502>>, <<11506, 11507>>,
    <<11520, 11557>>, <<11559, 11559>>, <<11565, 11565>>, <<42560, 42605>>,
    <<42624, 42653>>, <<42786, 42887>>, <<42891, 42894>>, <<42896, 42954>>,
    <<42960, 42961>>, <<42963, 42963>>, <<42965, 42969>>, <<42997, 42998>>,
    <<43000, 43002>>, <<43824, 43866>>, <<43868, 43880>>, <<43888, 43967>>,
    <<64256, 64262>>, <<64275, 64279>>, <<65313, 65338>>, <<65345, 65370>>,
    <<66560, 66639>>, <<66736, 66771>>, <<66776, 66811>>, <<66928, 66938>>,
    <<66940, 66954>>, <<66956, 66962>>, <<66964, 66965>>, <<66967, 66977>>,
    <<66979, 66993>>, <<66995, 67001>>, <<67003, 67004>>, <<67456, 67456>>,
    <<67459, 67461>>, <<67463, 67504>>, <<67506, 67514>>, <<68736, 68786>>,
    <<68800, 68850>>, <<71840, 71903>>, <<93760, 93823>>, <<119808, 119892>>,
    <<119894, 119964>>, <<119966, 119967>>, <<119970, 119970>>,
    <<119973, 119974>>, <<119977, 119980>>, <<119982, 119993>>,
    <<119995, 119995>>, <<119997, 120003>>, <<120005, 120069>>,
    <<120071, 120074>>, <<120077, 120084>>, <<120086, 120092>>,
    <<120094, 120121>>, <<120123, 120126>>, <<120128, 120132>>,
    <<120134, 120134>>, <<120138, 120144>>, <<120146, 120485>>,
    <<120488, 120512>>, <<120514, 120538>>, <<120540, 120570>>,
    <<120572, 120596>>, <<120598, 120628>>, <<120630, 120654>>,
    <<120656, 120686>>, <<120688, 120712>>, <<120714, 120744>>,
    <<120746, 120770>>, <<120772, 120779>>, <<122624, 122633>>,
    <<122635, 122654>>, <<125184, 125251>>, <<127280, 127305>>,
    <<127312, 127337>>, <<127344, 127369>> >>

\* c lies in one of the ranges <<first, last>>
InRanges(ranges, c) == \E k \in 1..Len(ranges) : ranges[k][1] <= c /\ c <= ranges[k][2]

IsCaseIgnorable(c) == InRanges(CaseIgnorable, c)

IsCased(c) == InRanges(Cased, c)

\* s[i] is a capital sigma at the end of a word: the nearest character before
\* it that is not case-ignorable is cased, the nearest after it is not
NotIgnorable(s, lo, hi) == { j \in lo..hi : ~IsCaseIgnorable(s[j]) }

\* whether the character at the greatest (nearest = 1) or least (nearest = -1)
\* of the indices is cased; FALSE if there is no index
CasedAt(s, indices, nearest) ==
    /\ indices # {}
    /\ IsCased(s[CHOOSE j \in indices : \A k \in indices : k * nearest <= j * nearest])

final_sigma(s, i) ==
    /\ CasedAt(s, NotIgnorable(s, 1, i - 1), 1)
    /\ ~CasedAt(s, NotIgnorable(s, i + 1, Len(s)), -1)

\* the lowercase of s[i], a str of one or two characters
\* the entries <<first, last, step, delta>> of the mapping that hold c
LowerEntries(ranges, c) ==
    { k \in 1..Len(ranges) : /\ ranges[k][1] <= c /\ c <= ranges[k][2]
                             /\ (c - ranges[k][1]) % ranges[k][3] = 0 }

\* c mapped by the entry that holds it, c itself if none does
LowerMapped(ranges, c, entries) ==
    IF entries = {} THEN c ELSE c + ranges[CHOOSE k \in entries : TRUE][4]

LowerOf(ranges, c) == LowerMapped(ranges, c, LowerEntries(ranges, c))

lower_char(s, i) ==
    LET c == s[i] IN
    IF c < 128 THEN <<IF 65 <= c /\ c <= 90 THEN c + 32 ELSE c>>
    ELSE IF c = 931 THEN <<IF final_sigma(s, i) THEN 962 ELSE 963>>
    ELSE IF c = 304 THEN <<105, 775>>
    ELSE <<LowerOf(LowerRanges, c)>>

\* the lowercase of s[lo..hi]
RECURSIVE lower_range(_, _, _)
lower_range(s, lo, hi) ==
    IF lo > hi THEN << >>
    ELSE IF lo = hi THEN lower_char(s, lo)
    ELSE LET mid == (lo + hi) \div 2
         IN lower_range(s, lo, mid) \o lower_range(s, mid + 1, hi)

\* str.lower()
lower(s) == lower_range(s, 1, Len(s))

\* the encodings tried, in order (line 59)
encodings == <<"utf-8", "utf-8-sig", "latin-1", "cp1252">>

\* the header keywords of line 71
header_keywords ==
    { Text("cable"), Text("id"), Text("origin"),
      Text("destination"), Text("spec") }

\* the literals removed from the origin and destination columns (lines 84-85)
ORIGIN_PREFIX == Text("ORIGIN: ")
DESTINATION_PREFIX == Text("DESTINATION: ")

\* ---- the codecs of open(..., encoding=...) (line 63), errors='strict'.
\* Decoding gives [text, error, at]: the characters decoded, whether
\* UnicodeDecodeError is raised, and then the index of the byte at which the
\* sequence is found invalid (one past the last byte when the data ends inside
\* a sequence)

\* the number of bytes of the sequence a byte begins, 0 if it begins none
utf_8_length(b) ==
    IF b < 128 THEN 1
    ELSE IF 194 <= b /\ b <= 223 THEN 2
    ELSE IF 224 <= b /\ b <= 239 THEN 3
    ELSE IF 240 <= b /\ b <= 244 THEN 4
    ELSE 0

\* the second bytes allowed after a first byte (no overlong forms, no
\* surrogates, nothing above U+10FFFF)
utf_8_second(first) ==
    IF first = 224 THEN 160..191
    ELSE IF first = 237 THEN 128..159
    ELSE IF first = 240 THEN 144..191
    ELSE IF first = 244 THEN 128..143
    ELSE 128..191

\* the code point a complete sequence encodes
utf_8_code_point(p) ==
    IF Len(p) = 2 THEN (p[1] - 192) * 64 + (p[2] - 128)
    ELSE IF Len(p) = 3 THEN (p[1] - 224) * 4096 + (p[2] - 128) * 64 + (p[3] - 128)
    ELSE (p[1] - 240) * 262144 + (p[2] - 128) * 4096 + (p[3] - 128) * 64 + (p[4] - 128)

\* the decoder after byte i of the data; pending is the sequence begun
utf_8_byte(d, bytes, i) ==
    LET b == bytes[i]
        p == Append(d.pending, b)
    IN IF d.error THEN d
       ELSE IF d.pending = << >>
       THEN IF b < 128 THEN [d EXCEPT !.text = Append(d.text, b)]
            ELSE IF utf_8_length(b) = 0 THEN [d EXCEPT !.error = TRUE, !.at = i]
            ELSE [d EXCEPT !.pending = p]
       ELSE IF \/ Len(d.pending) = 1 /\ b \notin utf_8_second(d.pending[1])
               \/ Len(d.pending) > 1 /\ b \notin 128..191
       THEN [d EXCEPT !.error = TRUE, !.at = i]
       ELSE IF Len(p) = utf_8_length(p[1])
       THEN [d EXCEPT !.text = Append(d.text, utf_8_code_point(p)), !.pending = << >>]
       ELSE [d EXCEPT !.pending = p]

\* the decoder after bytes lo..hi, taken left to right (the range is halved so
\* that the evaluation stays shallow on long data)
RECURSIVE utf_8_scan(_, _, _, _)
utf_8_scan(bytes, lo, hi, d) ==
    IF lo > hi THEN d
    ELSE IF lo = hi THEN utf_8_byte(d, bytes, lo)
    ELSE LET mid == (lo + hi) \div 2
             left == utf_8_scan(bytes, lo, mid, d)
         IN IF left.error THEN left ELSE utf_8_scan(bytes, mid + 1, hi, left)

\* the decoder at the start of the data
utf_8_start == [text |-> << >>, pending |-> << >>, error |-> FALSE, at |-> 0]

\* the end of n bytes of data: a sequence still pending is an error
utf_8_final(d, n) ==
    [text |-> d.text,
     error |-> d.error \/ d.pending # << >>,
     at |-> IF d.error THEN d.at ELSE IF d.pending # << >> THEN n + 1 ELSE 0]

utf_8_decode(bytes) == utf_8_final(utf_8_scan(bytes, 1, Len(bytes), utf_8_start), Len(bytes))

\* the byte order mark utf-8-sig drops from the start of the data
BOM == <<239, 187, 191>>

\* the number of bytes utf-8-sig drops
bom_length(bytes) == IF Len(bytes) >= 3 /\ SubSeq(bytes, 1, 3) = BOM THEN 3 ELSE 0

\* the decoding d of the data after n dropped bytes, as a decoding of all of it
after_dropped(d, n) == [d EXCEPT !.at = IF d.error THEN d.at + n ELSE 0]

\* data shorter than the mark that may still become one is kept back by the
\* decoder, also at the end of the file: it gives no text and no error
utf_8_sig_decode(bytes) ==
    IF Len(bytes) < Len(BOM) /\ SubSeq(BOM, 1, Len(bytes)) = bytes
    THEN [text |-> << >>, error |-> FALSE, at |-> 0]
    ELSE after_dropped(utf_8_decode(SubSeq(bytes, bom_length(bytes) + 1, Len(bytes))),
                       bom_length(bytes))

latin_1_decode(bytes) == [text |-> bytes, error |-> FALSE, at |-> 0]

\* the characters cp1252 gives the bytes 128..159, -1 for the bytes it leaves
\* undefined; every other byte is the character of the same number
cp1252_high == <<
    8364, -1, 8218, 402, 8222, 8230, 8224, 8225, 710, 8240, 352, 8249, 338,
    -1, 381, -1, -1, 8216, 8217, 8220, 8221, 8226, 8211, 8212, 732, 8482,
    353, 8250, 339, -1, 382, 376 >>

cp1252_char(b) == IF 128 <= b /\ b <= 159 THEN cp1252_high[b - 127] ELSE b

cp1252_decode(bytes) ==
    LET undefined == { i \in 1..Len(bytes) : cp1252_char(bytes[i]) = -1 } IN
    IF undefined = {}
    THEN [text |-> [i \in 1..Len(bytes) |-> cp1252_char(bytes[i])], error |-> FALSE, at |-> 0]
    ELSE LET at == CHOOSE i \in undefined : \A j \in undefined : i <= j
         IN [text |-> [i \in 1..(at - 1) |-> cp1252_char(bytes[i])],
             error |-> TRUE, at |-> at]

decode(encoding, bytes) ==
    CASE encoding = "utf-8" -> utf_8_decode(bytes)
      [] encoding = "utf-8-sig" -> utf_8_sig_decode(bytes)
      [] encoding = "latin-1" -> latin_1_decode(bytes)
      [] encoding = "cp1252" -> cp1252_decode(bytes)

\* ---- reading the file in text mode (lines 63-79)

LF == ord("\n")
CR == ord("\r")

\* newline=None: "\r\n" and "\r" are read as "\n"
universal_newlines(text) ==
    SelectSeq([i \in 1..Len(text) |->
                  IF text[i] # CR THEN text[i]
                  ELSE IF i < Len(text) /\ text[i + 1] = LF THEN -1
                  ELSE LF],
              LAMBDA c : c # -1)

\* the file object reads and decodes the file in chunks of this many bytes
chunk_size == 8192

\* the first byte of the chunk with which the decoder raises, d being the
\* failed decoding of the bytes.  A sequence found invalid at byte d.at is
\* reported with the chunk of that byte, but the start of a surrogate (237 and
\* a byte 160..191) at the very end of a chunk is reported with the next one
raising_chunk(encoding, bytes, d) ==
    LET at == IF /\ encoding \in {"utf-8", "utf-8-sig"}
                 /\ 2 <= d.at /\ d.at <= Len(bytes)
                 /\ bytes[d.at - 1] = 237 /\ bytes[d.at] \in 160..191
                 /\ (d.at % chunk_size = 0 \/ d.at = Len(bytes))
              THEN d.at + 1 ELSE d.at
    IN IF at > Len(bytes) THEN Len(bytes) + 1
       ELSE chunk_size * ((at - 1) \div chunk_size) + 1

\* the text read from the chunks before the one that raises; a "\r" at the
\* end is held back until the next chunk tells whether "\n" follows
held_back(read) ==
    IF read # << >> /\ read[Len(read)] = CR THEN SubSeq(read, 1, Len(read) - 1) ELSE read

text_before_error(encoding, bytes, d) ==
    universal_newlines(held_back(
        decode(encoding, SubSeq(bytes, 1, raising_chunk(encoding, bytes, d) - 1)).text))

\* the lines of a text that are complete: the text up to its last "\n"
complete_lines(text) ==
    LET ends == { i \in 1..Len(text) : text[i] = LF } IN
    IF ends = {} THEN << >>
    ELSE SubSeq(text, 1, CHOOSE i \in ends : \A j \in ends : j <= i)

\* line 65: the number of characters read to look for a header
sample_size == 1024

\* line 65: sample = f.read(1024), the first 1024 characters of the text
sample(text) ==
    SubSeq(text, 1, IF Len(text) < sample_size THEN Len(text) ELSE sample_size)

\* line 69: sample.split('\n')[0], the sample up to its first "\n"
first_line(text) ==
    LET s == sample(text) IN
    IF \E i \in 1..Len(s) : s[i] = LF
    THEN SubSeq(s, 1, (CHOOSE i \in 1..Len(s) :
                          s[i] = LF /\ \A j \in 1..(i - 1) : s[j] # LF) - 1)
    ELSE s

\* lines 69-71: the first line holds one of the keywords, case-insensitively
has_keyword(lowered) == \E keyword \in header_keywords : Contains(lowered, keyword)

has_header(text) == has_keyword(lower(first_line(text)))

\* ---- csv.reader (line 73), default dialect: delimiter ",", quotechar '"',
\* doublequote, not strict.  The reader is fed the lines of the file, each
\* ending with its "\n"; m is the parser: its state, the field and the record
\* being read, the records yielded, and whether csv.Error was raised
COMMA == ord(",")
QUOTE == ord("\"")

\* csv.field_size_limit(): the longest field the reader accepts
field_size_limit == 131072

csv_start ==
    [st |-> "START_RECORD", field |-> << >>, fields |-> << >>, rows |-> << >>,
     error |-> FALSE]

\* parse_save_field
csv_save_field(m) == [m EXCEPT !.fields = Append(m.fields, m.field), !.field = << >>]

\* parse_add_char: csv.Error when the field is at the limit already
csv_add_char(m, c) ==
    IF Len(m.field) >= field_size_limit THEN [m EXCEPT !.error = TRUE]
    ELSE [m EXCEPT !.field = Append(m.field, c)]

csv_start_field(m, c) ==
    IF c \in {LF, CR} THEN [csv_save_field(m) EXCEPT !.st = "EAT_CRNL"]
    ELSE IF c = QUOTE THEN [m EXCEPT !.st = "IN_QUOTED_FIELD"]
    ELSE IF c = COMMA THEN [csv_save_field(m) EXCEPT !.st = "START_FIELD"]
    ELSE [csv_add_char(m, c) EXCEPT !.st = "IN_FIELD"]

\* parse_process_char for a character of the line
csv_char(m, c) ==
    CASE m.st = "START_RECORD" ->
            IF c \in {LF, CR} THEN [m EXCEPT !.st = "EAT_CRNL"]
            ELSE csv_start_field(m, c)
      [] m.st = "START_FIELD" -> csv_start_field(m, c)
      [] m.st = "IN_FIELD" ->
            IF c \in {LF, CR} THEN [csv_save_field(m) EXCEPT !.st = "EAT_CRNL"]
            ELSE IF c = COMMA THEN [csv_save_field(m) EXCEPT !.st = "START_FIELD"]
            ELSE csv_add_char(m, c)
      [] m.st = "IN_QUOTED_FIELD" ->
            IF c = QUOTE THEN [m EXCEPT !.st = "QUOTE_IN_QUOTED_FIELD"]
            ELSE csv_add_char(m, c)
      [] m.st = "QUOTE_IN_QUOTED_FIELD" ->
            IF c = QUOTE THEN [csv_add_char(m, c) EXCEPT !.st = "IN_QUOTED_FIELD"]
            ELSE IF c = COMMA THEN [csv_save_field(m) EXCEPT !.st = "START_FIELD"]
            ELSE IF c \in {LF, CR} THEN [csv_save_field(m) EXCEPT !.st = "EAT_CRNL"]
            ELSE [csv_add_char(m, c) EXCEPT !.st = "IN_FIELD"]
      [] m.st = "EAT_CRNL" ->
            IF c \in {LF, CR} THEN m
            ELSE [m EXCEPT !.error = TRUE]   \* new-line character seen in unquoted field

\* the record is complete: it is yielded
csv_yield(m) ==
    [m EXCEPT !.rows = Append(m.rows, m.fields), !.fields = << >>, !.st = "START_RECORD"]

\* parse_process_char for the end of a line; a record is yielded unless a
\* quoted field is open
csv_end_of_line(m) ==
    CASE m.st \in {"START_FIELD", "IN_FIELD", "QUOTE_IN_QUOTED_FIELD"} ->
            csv_yield(csv_save_field(m))
      [] m.st \in {"START_RECORD", "EAT_CRNL"} -> csv_yield(m)
      [] m.st = "IN_QUOTED_FIELD" -> m

\* the input is exhausted: a last line without "\n" ends here, and a quoted
\* field still open is closed and its record yielded
csv_close(m) == IF m.st = "IN_QUOTED_FIELD" THEN csv_yield(csv_save_field(m)) ELSE m

csv_end_of_input(m, text) ==
    csv_close(IF text # << >> /\ text[Len(text)] # LF THEN csv_end_of_line(m) ELSE m)

\* the parser after character i of the text; the end of a line follows its "\n"
csv_after_char(m, c) == IF c = LF /\ ~m.error THEN csv_end_of_line(m) ELSE m

csv_step(text, i, m) ==
    IF m.error THEN m ELSE csv_after_char(csv_char(m, text[i]), text[i])

\* the parser after characters lo..hi of the text, taken left to right (the
\* range is halved so that the evaluation stays shallow on long texts)
RECURSIVE csv_scan(_, _, _, _)
csv_scan(text, lo, hi, m) ==
    IF lo > hi THEN m
    ELSE IF lo = hi THEN csv_step(text, lo, m)
    ELSE LET mid == (lo + hi) \div 2
             left == csv_scan(text, lo, mid, m)
         IN IF left.error THEN left ELSE csv_scan(text, mid + 1, hi, left)

\* the records csv.reader yields for the whole text, and whether it then raises
csv_finish(m, text) == IF m.error THEN m ELSE csv_end_of_input(m, text)

csv_result(m) == [rows |-> m.rows, error |-> m.error]

csv_reader(text) == csv_result(csv_finish(csv_scan(text, 1, Len(text), csv_start), text))

\* lines 76-79: the rows the for loop gets from the records the reader yields,
\* the first record skipped by next(reader) if there is a header.  With a
\* header and no record next(reader) raises
reader_rows(text, records) ==
    IF has_header(text)
    THEN IF records = << >> THEN [rows |-> << >>, raises |-> TRUE]
         ELSE [rows |-> Tail(records), raises |-> FALSE]
    ELSE [rows |-> records, raises |-> FALSE]

\* lines 73-79 when the text is read up to its end: the reader r is iterated
\* until it is exhausted or raises csv.Error
attempt_loop(handed, error) == [rows |-> handed.rows, raises |-> handed.raises \/ error]

attempt_records(text, r) == attempt_loop(reader_rows(text, r.rows), r.error)

attempt_read(text) == attempt_records(text, csv_reader(text))

\* lines 65-79 when UnicodeDecodeError is raised after the text: in f.read(1024)
\* if that needs the chunk that raises, else once the reader has been given
\* the complete lines of the text
attempt_cut(text) ==
    IF Len(text) < sample_size THEN [rows |-> << >>, raises |-> TRUE]
    ELSE attempt_records(text, [rows |-> csv_scan(complete_lines(text), 1,
                                                  Len(complete_lines(text)), csv_start).rows,
                                error |-> TRUE])

attempt_decoded(encoding, bytes, d) ==
    IF ~d.error THEN attempt_read(universal_newlines(d.text))
    ELSE attempt_cut(text_before_error(encoding, bytes, d))

\* lines 62-104: the attempt with encoding e: the rows it hands to the loop
\* body and whether it ends in an exception
attempt(file, e) ==
    IF ~file.readable THEN [rows |-> << >>, raises |-> TRUE]     \* open() raises
    ELSE attempt_decoded(encodings[e], file.bytes, decode(encodings[e], file.bytes))

attempt_rows(file, e) == attempt(file, e).rows
attempt_raises(file, e) == attempt(file, e).raises

\* lines 80-98: the records one row appends to cables (none or one)
\* lines 86-87, 97-98: the record is appended if its id is not empty
appended(cable) == IF cable.cable_id # << >> THEN <<cable>> ELSE << >>

row_cables(row) ==
    IF Len(row) >= 4
    THEN appended(NewCable(strip(row[1]), strip(row[2]),
                           replace(strip(row[3]), ORIGIN_PREFIX, << >>),
                           replace(strip(row[4]), DESTINATION_PREFIX, << >>)))
    ELSE IF Len(row) >= 2
    THEN appended(NewCable(strip(row[1]), strip(row[2]),
                           IF Len(row) > 2 THEN strip(row[3]) ELSE << >>,
                           IF Len(row) > 3 THEN strip(row[4]) ELSE << >>))
    ELSE << >>

\* lines 79-98: the records the rows append, in row order
rows_cables(rows) == Concat([i \in 1..Len(rows) |-> row_cables(rows[i])])

\* lines 61-104: the encoding loop.  cables is created once, before the loop
\* (line 56); an attempt that raises leaves in it what it had appended
RECURSIVE parse_attempts(_, _, _)
\* the end of the attempt with encoding e, acc being the list cables by then
attempt_end(file, e, raises, acc) ==
    IF raises THEN parse_attempts(file, e + 1, acc)   \* except ...: continue
    ELSE acc                                          \* break

attempt_body(file, e, acc, a) == attempt_end(file, e, a.raises, acc \o rows_cables(a.rows))

parse_attempts(file, e, acc) ==
    IF e > Len(encodings) THEN acc ELSE attempt_body(file, e, acc, attempt(file, e))

parse_csv(file) == parse_attempts(file, 1, << >>)

\* ---- the inputs of SpecParse

\* str.encode('utf-8')
utf_8_encode_char(c) ==
    IF c < 128 THEN <<c>>
    ELSE IF c < 2048 THEN <<192 + (c \div 64), 128 + (c % 64)>>
    ELSE IF c < 65536
    THEN <<224 + (c \div 4096), 128 + ((c \div 64) % 64), 128 + (c % 64)>>
    ELSE <<240 + (c \div 262144), 128 + ((c \div 4096) % 64),
           128 + ((c \div 64) % 64), 128 + (c % 64)>>

utf_8_encode(text) == Concat([i \in 1..Len(text) |-> utf_8_encode_char(text[i])])

\* a file that can be opened, and one whose open() raises whatever the encoding
File(bytes) == [bytes |-> bytes, readable |-> TRUE]
Unreadable(bytes) == [bytes |-> bytes, readable |-> FALSE]

\* the line a row of fields is written as, and the text of a file of such rows
line_of(row) == join(Text(","), row) \o Text("\n")
text_of(rows) == Concat([i \in 1..Len(rows) |-> line_of(rows[i])])

HeaderRow == << Text("CableID"), Text("Spec"),
                Text("Origin"),
                Text("Destination") >>

\* 160 is the no-break space, 8195 the em space
IdTexts == { Text("K1"), Text(" K1\t"), << >>, <<160>>, <<8195>> \o Text("K1") }
RowSpecTexts == { Text("4mm CU"),
                  Text(" 4mm  CU ") }
OriginChunks == { Text(" "), Text("A"), ORIGIN_PREFIX }
DestinationChunks == { Text(" "), Text("B"), DESTINATION_PREFIX }
OriginTexts == { Concat(p) : p \in SeqUpTo(OriginChunks, MaxFieldChunks) }
DestinationTexts == { Concat(p) : p \in SeqUpTo(DestinationChunks, MaxFieldChunks) }

\* one data row of 1 to 5 fields; of the origin and destination columns one
\* varies over all texts while the other is plain
OneRows ==
    { <<id>> : id \in IdTexts }
    \cup { <<id, sp>> : id \in IdTexts, sp \in RowSpecTexts }
    \cup { <<id, sp, o>> : id \in IdTexts, sp \in RowSpecTexts, o \in OriginTexts }
    \cup { <<id, sp, o, Text("B") >> : id \in IdTexts, sp \in RowSpecTexts, o \in OriginTexts }
    \cup { <<id, sp, Text("A"), d>> : id \in IdTexts, sp \in RowSpecTexts,
                                    d \in DestinationTexts }
    \cup { <<id, sp, o, Text("B"), Text("x") >> :
                id \in IdTexts, sp \in RowSpecTexts, o \in OriginTexts }

\* a plain row with the given id
RowOf(id) == <<id, Text("CU"), Text("A"), Text("B") >>

\* plain rows for the files with several rows
PlainRows ==
    { << Text("K1"), Text("4mm CU"), Text("A"), Text("B") >>,
      << Text("K2"), Text("CU"), Text("A"), Text("B") >>,
      << Text(" "), Text("CU"), Text("A"), Text("B") >>,
      << Text("K3") >> }

WithHeader(rows, h) == IF h THEN <<HeaderRow>> \o rows ELSE rows

\* length of the fifth field of the file whose first line is longer than the
\* sample
LongFieldLen == 1100

\* texts with quoted fields, line ends inside quotes, "\r\n" line ends, blank
\* lines, a first line longer than the sample, a header that is one unclosed
\* quoted field, and first lines whose lowercase is not that of their ASCII
\* letters (201 is the capital E with acute accent, 304 the capital I with
\* dot above, 931 the capital sigma)
SpecialTexts ==
    { Text("\"K1\n\",\"4mm\nCU\",\"\nA\",B"),
      Text("\"K1\nid\",4mm CU,A,B\n") \o line_of(RowOf(Text("K2"))),
      Text("\n") \o line_of(RowOf(Text("K1"))) \o Text("\n") \o line_of(RowOf(Text("K2"))),
      line_of(HeaderRow) \o Text("K1,\"CU\"\"x\",A,\"B"),
      Text("CableID,Spec,Origin,Destination\r\nK1,4mm CU,A,B\r\nK2,CU,A,B\r"),
      line_of(RowOf(Text("K1")) \o << [i \in 1..LongFieldLen |-> ord("x")], Text("id") >>)
        \o line_of(RowOf(Text("K2"))),
      Text("\"ID\n"),
      <<201>> \o Text("TIQUETTE,x,y,z\n") \o line_of(RowOf(Text("K1"))),
      <<304>> \o Text("D,x,y,z\n") \o line_of(RowOf(Text("K1"))),
      Text("A") \o <<931>> \o Text(",x,y,z\n") \o line_of(RowOf(Text("K1"))) }

\* length of the filler field of the files longer than one chunk
FillLen == 8200

\* a header, a row whose specification holds a two-byte character (178, the
\* superscript two), a row with a filler field of n characters, and tail
LongFile(n, tail) ==
    utf_8_encode(line_of(HeaderRow)
                 \o line_of(<<Text("K1"), Text("4mm") \o <<178>> \o Text(" CU"),
                              Text("A"), Text("B")>>)
                 \o line_of(RowOf(Text("K2")) \o << [i \in 1..n |-> ord("x")] >>))
        \o tail

\* files that are not UTF-8 throughout: a byte that begins no sequence (233,
\* the latin-1 e with acute accent) in the first chunk or beyond it, a sequence
\* cut short by the end of the file, the start of a surrogate
BadTails ==
    { Text("K3,CU") \o <<233>> \o Text(",A,B\n"),
      Text("K3,CU,A,B\n") \o <<195>>,
      Text("K3,CU,A,B\nK4,CU,A,") \o <<237, 160>> }

SpecialFiles ==
    { File(BOM \o utf_8_encode(text_of(<<HeaderRow, RowOf(Text("K1"))>>))),
      File(BOM \o utf_8_encode(text_of(<<RowOf(Text("K1"))>>))),
      File(Text("K1,CU,Caf") \o <<233>> \o Text(",B\n")),
      File(utf_8_encode(text_of(<<HeaderRow, RowOf(Text("K1"))>>)) \o <<195>>),
      Unreadable(utf_8_encode(text_of(<<HeaderRow, RowOf(Text("K1"))>>))) }
    \cup { File(LongFile(n, tail)) : n \in {FillLen - 200, FillLen}, tail \in BadTails }

CsvFiles ==
    { File(utf_8_encode(text_of(WithHeader(<<r>>, h)))) : r \in OneRows, h \in BOOLEAN }
    \cup { File(utf_8_encode(text_of(WithHeader(rs, TRUE)))) :
              rs \in SeqUpTo(PlainRows, MaxRows) }
    \cup { File(utf_8_encode(s)) : s \in SpecialTexts }
    \cup SpecialFiles

ParseInit ==
    /\ csvFile \in CsvFiles
    /\ parsed = << >>
    /\ parsePc = "start"

\* cables = self.parse_csv(csv_path)
ParseCsv ==
    /\ parsePc = "start"
    /\ parsed' = parse_csv(csvFile)
    /\ parsePc' = "parsed"
    /\ UNCHANGED csvFile
    /\ UNCHANGED <<recVars, gridVars, runVars>>

-----------------------------------------------------------------------------
(* create_multi_label_sheet and _draw_label_at_position *)

\* most labels and most columns of the sheets SpecGrid lays out
MaxCount == 7
MaxCols == 4
\* widest spacing SpecGrid lays out
MaxSpacing == 2

\* lines 271-273.  Hole corners fall on quarter millimetres (hole_height/2 =
\* 1.25), so hole rectangles are held in quarter millimetres: hole_height_q is
\* hole_height = 2.5 mm in that unit
hole_offset == 5
hole_width == 5
hole_height_q == 10

\* line 233
rows_needed(count, labels_per_row) == (count + labels_per_row - 1) \div labels_per_row

\* line 232
total_width(labels_per_row, label_width, spacing) ==
    labels_per_row * (label_width + spacing) + spacing

\* line 234
total_height(count, labels_per_row, label_height, spacing) ==
    rows_needed(count, labels_per_row) * (label_height + spacing) + spacing

\* a mutant of label_offset: rows are filled from the bottom of the sheet upwards
label_offset_bottom_up(idx, count, labels_per_row, label_width, label_height, spacing) ==
    LET row == idx \div labels_per_row
        col == idx % labels_per_row
    IN [x |-> spacing + col * (label_width + spacing),
        y |-> spacing + row * (label_height + spacing)]

\* a mutant of label_offset: the left margin is forgotten
label_offset_no_margin(idx, count, labels_per_row, label_width, label_height, spacing) ==
    LET row == idx \div labels_per_row
        col == idx % labels_per_row
    IN [x |-> col * (label_width + spacing),
        y |-> total_height(count, labels_per_row, label_height, spacing)
                - (row + 1) * (label_height + spacing)]

\* lines 240-244: where the label of flat index idx (0-based) is drawn
label_offset(idx, count, labels_per_row, label_width, label_height, spacing) ==
    LET row == idx \div labels_per_row
        col == idx % labels_per_row
    IN [x |-> spacing + col * (label_width + spacing),
        y |-> total_height(count, labels_per_row, label_height, spacing)
                - (row + 1) * (label_height + spacing)]

\* lines 274-290: the four hole rectangles, in quarter millimetres
\* (x1, y1) lower left, (x2, y2) upper right
hole_rectangles(x, y, width, height) ==
    LET hole_positions == << <<x + hole_offset, y + hole_offset>>,
                             <<x + width - hole_offset, y + hole_offset>>,
                             <<x + hole_offset, y + height - hole_offset>>,
                             <<x + width - hole_offset, y + height - hole_offset>> >>
        half_w == (4 * hole_width) \div 2
        half_h == hole_height_q \div 2
    IN [k \in 1..4 |->
          [x1 |-> 4 * hole_positions[k][1] - half_w, y1 |-> 4 * hole_positions[k][2] - half_h,
           x2 |-> 4 * hole_positions[k][1] + half_w, y2 |-> 4 * hole_positions[k][2] + half_h]]

\* lines 260-305: the outline (millimetres), the holes, and the id text, which
\* is the cable_id untruncated.  The specification, origin and destination
\* texts are not kept.
draw_label_at_position(cable, x, y, width, height) ==
    [cable_id |-> cable.cable_id,
     outline |-> [x1 |-> x, y1 |-> y, x2 |-> x + width, y2 |-> y + height],
     holes |-> hole_rectangles(x, y, width, height)]

\* lines 239-249: the entities of a sheet, one label per cable in enumerate order
sheet_labels(cs, labels_per_row, label_width, label_height, spacing) ==
    [i \in 1..Len(cs) |->
        LET at == label_offset(i - 1, Len(cs), labels_per_row,
                               label_width, label_height, spacing)
        IN draw_label_at_position(cs[i], at.x, at.y, label_width, label_height)]

\* ---- the inputs of SpecGrid: the default footprint (line 217-218) and the
\* one generate_all_labels passes (lines 404-405)
GridWidths == {80, 180}
GridHeights == {40, 45}

GridInit ==
    /\ gridArgs \in [count : 1..MaxCount, labels_per_row : 1..MaxCols,
                     label_width : GridWidths, label_height : GridHeights,
                     spacing : 0..MaxSpacing]
    /\ drawn = << >>

\* one iteration of the loop of line 239
DrawLabel ==
    /\ Len(drawn) < gridArgs.count
    /\ drawn' = Append(drawn, label_offset(Len(drawn), gridArgs.count,
                                           gridArgs.labels_per_row, gridArgs.label_width,
                                           gridArgs.label_height, gridArgs.spacing))
    /\ UNCHANGED gridArgs
    /\ UNCHANGED <<recVars, parseVars, runVars>>

-----------------------------------------------------------------------------
(* main, CableLabelGenerator.__init__ and generate_all_labels *)

\* most cables of a run with distinct ids (three sheets at 37)
MaxCables == 37
\* most data rows of a run whose ids may collide
MaxCollidingRows == 2

\* lines 44-45
canvas_width == 600
canvas_height == 300
\* line 395
batch_size == 18
\* lines 403-406: what generate_all_labels passes to create_multi_label_sheet
sheet_labels_per_row == 3
sheet_label_width == 180
sheet_label_height == 45
sheet_spacing == 2
\* line 109: the defaults create_label_dxf is called with
default_label_width == 80
default_label_height == 40

Min(a, b) == IF a < b THEN a ELSE b

DigitChars == Text("0123456789")

\* str(n) for n >= 0
RECURSIVE decimal(_)
decimal(n) ==
    IF n < 10 THEN <<DigitChars[n + 1]>>
    ELSE decimal(n \div 10) \o <<DigitChars[(n % 10) + 1]>>

\* f"{n:02d}"
format_02d(n) == IF n < 10 THEN Text("0") \o decimal(n) ELSE decimal(n)

\* line 380: f"cable_{cable.cable_id.replace('/', '_')}.dxf"
individual_filename(cable) ==
    Text("cable_") \o replace(cable.cable_id, Text("/"), Text("_"))
        \o Text(".dxf")

\* line 400: f"cable_labels_sheet_{batch_num:02d}.dxf"
sheet_filename(batch_num) ==
    Text("cable_labels_sheet_") \o format_02d(batch_num) \o Text(".dxf")

\* a mutant of make_batches: each slice stops one element early
make_batches_short_slice(cs) ==
    [k \in 1..((Len(cs) + batch_size - 1) \div batch_size) |->
        SubSeq(cs, (k - 1) * batch_size + 1, Min((k - 1) * batch_size + batch_size - 1, Len(cs)))]

\* lines 396-397: [cables[i:i+batch_size] for i in range(0, len(cables), batch_size)].
\* range(0, L, 18) has (L + 17) div 18 elements, the k-th being (k-1)*18; a
\* slice stops at the end of the list
make_batches(cs) ==
    [k \in 1..((Len(cs) + batch_size - 1) \div batch_size) |->
        SubSeq(cs, (k - 1) * batch_size + 1, Min((k - 1) * batch_size + batch_size, Len(cs)))]

\* create_label_dxf, lines 123-169: one label at the origin; the outline, the
\* holes (hole_offset, hole_width, hole_height as in lines 134-136) and the id text
label_dxf(cable, label_width, label_height) ==
    [kind |-> "label",
     labels |-> <<draw_label_at_position(cable, 0, 0, label_width, label_height)>>]

\* create_multi_label_sheet, lines 222-249
sheet_dxf(cs, labels_per_row, label_width, label_height, spacing) ==
    [kind |-> "sheet",
     labels |-> sheet_labels(cs, labels_per_row, label_width, label_height, spacing)]

\* doc.saveas(path): the file is created or replaced
\* ---- print: sys.stdout encodes the text with its encoding and its error
\* handler; UnicodeEncodeError is raised for a character the encoding cannot
\* encode unless the handler takes care of it

\* the characters of the messages that are not ASCII (lines 360, 363, 373)
CHECK_MARK == 10003
CROSS_MARK == 10060
ARROW == 8594

\* the code points U+D800..U+DFFF, which no encoding encodes; a path holds one
\* for each byte of its name that the file system encoding does not decode
Surrogates == 55296..57343

\* the code points U+DC80..U+DCFF, which stand for the bytes 128..255 that
\* were not decoded; the handler surrogateescape writes them as those bytes
EscapedBytes == 56448..56575

\* sys.stdout: its encoding and its error handler.  The handler is strict
\* unless the locale is C, C.UTF-8 or POSIX, where it is surrogateescape;
\* PYTHONIOENCODING sets both.  The handlers of the runs are one that raises,
\* the one of the C locale and one that never raises
Stdouts ==
    [encoding : {"utf-8", "latin-1", "ascii"},
     errors : {"strict", "surrogateescape", "replace"}]

\* sys.stdout writes the character without raising: the handler puts
\* something else for it and never raises, or is one for surrogates, or the
\* encoding encodes the character
encodable(stdout, c) ==
    IF stdout.errors \in {"replace", "ignore", "backslashreplace", "xmlcharrefreplace",
                          "namereplace"}
    THEN TRUE
    ELSE IF stdout.errors = "surrogateescape" /\ c \in EscapedBytes THEN TRUE
    ELSE IF stdout.errors = "surrogatepass" /\ stdout.encoding = "utf-8" /\ c \in Surrogates
         THEN TRUE
    ELSE CASE stdout.encoding = "utf-8" -> c >= 0 /\ c \notin Surrogates
           [] stdout.encoding = "latin-1" -> c >= 0 /\ c < 256
           [] stdout.encoding = "ascii" -> c >= 0 /\ c < 128

\* print(text) returns; otherwise it raises UnicodeEncodeError
prints(stdout, text) == \A i \in 1..Len(text) : encodable(stdout, text[i])

\* ---- os.path (posixpath)
SLASH == ord("/")
DOT == ord(".")

\* str.split('/')
split_at(s, sep) ==
    LET at == <<0>> \o SelectSeq([i \in 1..Len(s) |-> i], LAMBDA i : s[i] = sep)
                    \o <<Len(s) + 1>>
    IN [k \in 1..(Len(at) - 1) |-> SubSeq(s, at[k] + 1, at[k + 1] - 1)]

\* the loop of normpath over the components from the k-th on
RECURSIVE norm_comps(_, _, _, _)
norm_comps(comps, k, initial_slashes, new_comps) ==
    IF k > Len(comps) THEN new_comps
    ELSE IF comps[k] \in {<< >>, <<DOT>>}
    THEN norm_comps(comps, k + 1, initial_slashes, new_comps)
    ELSE IF \/ comps[k] # <<DOT, DOT>>
            \/ initial_slashes = 0 /\ new_comps = << >>
            \/ new_comps # << >> /\ new_comps[Len(new_comps)] = <<DOT, DOT>>
    THEN norm_comps(comps, k + 1, initial_slashes, Append(new_comps, comps[k]))
    ELSE IF new_comps # << >>
    THEN norm_comps(comps, k + 1, initial_slashes, SubSeq(new_comps, 1, Len(new_comps) - 1))
    ELSE norm_comps(comps, k + 1, initial_slashes, new_comps)

\* the slashes normpath keeps at the start: two only if there are exactly two
initial_slashes(path) ==
    IF path[1] # SLASH THEN 0
    ELSE IF Len(path) >= 2 /\ path[2] = SLASH /\ ~(Len(path) >= 3 /\ path[3] = SLASH) THEN 2
    ELSE 1

or_dot(path) == IF path = << >> THEN <<DOT>> ELSE path

\* os.path.normpath
normpath(path) ==
    IF path = << >> THEN <<DOT>>
    ELSE or_dot([i \in 1..initial_slashes(path) |-> SLASH]
                \o join(<<SLASH>>, norm_comps(split_at(path, SLASH), 1,
                                              initial_slashes(path), << >>)))

\* os.path.join(a, b)
path_join(a, b) ==
    IF b # << >> /\ b[1] = SLASH THEN b
    ELSE IF a = << >> \/ a[Len(a)] = SLASH THEN a \o b
    ELSE a \o <<SLASH>> \o b

\* os.path.abspath(path), cwd being os.getcwd()
abspath(cwd, path) ==
    normpath(IF path # << >> /\ path[1] = SLASH THEN path ELSE path_join(cwd, path))

\* lines 354-355: the two paths of the banner are printed
banner_prints(stdout, csv_path, output_dir) ==
    prints(stdout, csv_path) /\ prints(stdout, output_dir)

\* lines 369-374: the first five cables are printed
sample_prints(stdout, cs) ==
    \A i \in 1..Min(5, Len(cs)) :
        /\ prints(stdout, cs[i].cable_id)
        /\ prints(stdout, cs[i].specification)
        /\ prints(stdout, cs[i].origin \o <<ARROW>> \o cs[i].destination)

\* lines 360-374: the messages that follow parse_csv are printed
found_prints(stdout, cs) ==
    /\ encodable(stdout, CHECK_MARK)
    /\ IF cs = << >> THEN encodable(stdout, CROSS_MARK) ELSE sample_prints(stdout, cs)

saved(files, name, content) ==
    [n \in (DOMAIN files) \cup {name} |-> IF n = name THEN content ELSE files[n]]

combined == ~args.no_combined

\* ---- the inputs of SpecRun
\* most rows of a file that is run in every surrounding; a longer file is run
\* in the plain one
MaxVariedRows == 2
CollidingIds ==
    { Text("A/B"), Text("A_B"), Text("C"),
      Text("labels_sheet_01") }
RunRow(id) == <<id, Text("4mm CU"), Text("A"), Text("B") >>
\* rows with the distinct ids K1, K2, ...
NumberedRows(n) == [i \in 1..n |-> RunRow(Text("K") \o decimal(i))]
EmptyFile == File(<< >>)

\* the paths of the command line and the working directory: ASCII names, a
\* name with a letter outside ASCII, names with a byte that is not UTF-8
CsvPaths ==
    { Text("cables.csv"), Text("c") \o <<226>> \o Text("bles.csv"),
      Text("c") \o <<56546>> \o Text("bles.csv") }
OutputDirs == { Text("output"), Text("out") \o <<56553>> }
WorkingDirs == { Text("/work"), Text("/w") \o <<56553>> }

\* the files of a header and lo to hi numbered rows
NumberedFiles(lo, hi) ==
    { File(utf_8_encode(text_of(<<HeaderRow>> \o NumberedRows(n)))) : n \in lo..hi }

\* the files that are run with every path and stdout
VariedFiles ==
    {EmptyFile}
    \cup NumberedFiles(0, MaxVariedRows)
    \cup { File(utf_8_encode(text_of(<<HeaderRow>> \o [i \in 1..Len(ids) |-> RunRow(ids[i])]))) :
              ids \in SeqUpTo(CollidingIds, MaxCollidingRows) }
    \cup { Unreadable(utf_8_encode(text_of(<<HeaderRow>> \o NumberedRows(1)))) }

RunInit ==
    /\ \/ /\ args \in [exists : BOOLEAN, individual : BOOLEAN, no_combined : BOOLEAN,
                       csv_file : CsvPaths, output : OutputDirs]
          /\ env \in [makedirs_ok : BOOLEAN, file : VariedFiles, stdout : Stdouts,
                      cwd : WorkingDirs]
       \* the longer files are run with ASCII paths and a stdout that is UTF-8
       \/ /\ args \in [exists : {TRUE}, individual : BOOLEAN, no_combined : BOOLEAN,
                       csv_file : {Text("cables.csv")}, output : {Text("output")}]
          /\ env \in [makedirs_ok : {TRUE}, file : NumberedFiles(MaxVariedRows + 1, MaxCables),
                      stdout : {[encoding |-> "utf-8", errors |-> "strict"]},
                      cwd : {Text("/work")}]
    /\ ~args.exists => (env.file = EmptyFile /\ env.makedirs_ok)
    /\ ~env.makedirs_ok => env.file = EmptyFile
    /\ pc = "main"
    /\ cables = << >>
    /\ batches = << >>
    /\ next_i = 1
    /\ fs = << >>
    /\ generated_files = << >>
    /\ saveas_calls = << >>
    /\ exit_status = 0

\* lines 438-440: the csv path does not exist.  sys.exit(1) follows the
\* message; if print raises instead, the uncaught exception gives status 1 too
MainFileNotFound ==
    /\ pc = "main"
    /\ ~args.exists
    /\ pc' = "exited"
    /\ exit_status' = 1
    /\ UNCHANGED <<args, env, cables, batches, next_i, fs, generated_files, saveas_calls>>
    /\ UNCHANGED <<recVars, parseVars, gridVars>>

\* lines 442, 52: os.makedirs raises; nothing catches it, the interpreter
\* prints the traceback and exits with status 1
MainMakedirsRaises ==
    /\ pc = "main"
    /\ args.exists
    /\ ~env.makedirs_ok
    /\ pc' = "exited"
    /\ exit_status' = 1
    /\ UNCHANGED <<args, env, cables, batches, next_i, fs, generated_files, saveas_calls>>
    /\ UNCHANGED <<recVars, parseVars, gridVars>>

\* lines 442-443, 351-356: the generator is constructed, generate_all_labels
\* entered and the banner printed
MainStart ==
    /\ pc = "main"
    /\ args.exists
    /\ env.makedirs_ok
    /\ banner_prints(env.stdout, args.csv_file, args.output)
    /\ pc' = "parse"
    /\ UNCHANGED <<args, env, cables, batches, next_i, fs, generated_files,
                   saveas_calls, exit_status>>
    /\ UNCHANGED <<recVars, parseVars, gridVars>>

\* lines 354-355: print raises for a path stdout cannot write.  Nothing
\* catches UnicodeEncodeError: the run ends with status 1
BannerEncodeRaises ==
    /\ pc = "main"
    /\ args.exists
    /\ env.makedirs_ok
    /\ ~banner_prints(env.stdout, args.csv_file, args.output)
    /\ pc' = "exited"
    /\ exit_status' = 1
    /\ UNCHANGED <<args, env, cables, batches, next_i, fs, generated_files, saveas_calls>>
    /\ UNCHANGED <<recVars, parseVars, gridVars>>

\* lines 359-364: no cables, generate_all_labels returns [] and main ends
ParseNoCables ==
    /\ pc = "parse"
    /\ parse_csv(env.file) = << >>
    /\ found_prints(env.stdout, << >>)
    /\ cables' = << >>
    /\ pc' = "exited"
    /\ exit_status' = 0
    /\ UNCHANGED <<args, env, batches, next_i, fs, generated_files, saveas_calls>>
    /\ UNCHANGED <<recVars, parseVars, gridVars>>

\* lines 359-377
ParseCables ==
    /\ pc = "parse"
    /\ parse_csv(env.file) # << >>
    /\ found_prints(env.stdout, parse_csv(env.file))
    /\ cables' = parse_csv(env.file)
    /\ generated_files' = << >>
    /\ next_i' = 1
    /\ pc' = IF args.individual THEN "individual"
             ELSE IF combined THEN "batch" ELSE "summary"
    /\ UNCHANGED <<args, env, batches, fs, saveas_calls, exit_status>>
    /\ UNCHANGED <<recVars, parseVars, gridVars>>

\* lines 359-373: parse_csv has returned and print raises at line 360, 363 or
\* 371-373; the run ends with status 1 and has written no file
FoundEncodeRaises ==
    /\ pc = "parse"
    /\ ~found_prints(env.stdout, parse_csv(env.file))
    /\ cables' = parse_csv(env.file)
    /\ pc' = "exited"
    /\ exit_status' = 1
    /\ UNCHANGED <<args, env, batches, next_i, fs, generated_files, saveas_calls>>
    /\ UNCHANGED <<recVars, parseVars, gridVars>>

\* lines 379-385, 211-213: one individual label is saved.  The messages of
\* lines 378-411 hold ASCII and the check mark line 360 has printed
IndividualLabel ==
    /\ pc = "individual"
    /\ LET cable == cables[next_i]
           filename == individual_filename(cable)
       IN /\ saveas_calls' = Append(saveas_calls, filename)
          /\ fs' = saved(fs, filename,
                         label_dxf(cable, default_label_width, default_label_height))
          /\ generated_files' = Append(generated_files, filename)
    /\ next_i' = IF next_i < Len(cables) THEN next_i + 1 ELSE 1
    /\ pc' = IF next_i < Len(cables) THEN "individual"
             ELSE IF combined THEN "batch" ELSE "summary"
    /\ UNCHANGED <<args, env, cables, batches, exit_status>>
    /\ UNCHANGED <<recVars, parseVars, gridVars>>

\* line 212: doc.saveas raises.  Neither create_label_dxf, generate_all_labels
\* nor main catches it: the run ends there with status 1
IndividualSaveRaises ==
    /\ pc = "individual"
    /\ saveas_calls' = Append(saveas_calls, individual_filename(cables[next_i]))
    /\ pc' = "exited"
    /\ exit_status' = 1
    /\ UNCHANGED <<args, env, cables, batches, next_i, fs, generated_files>>
    /\ UNCHANGED <<recVars, parseVars, gridVars>>

\* lines 395-397
ComputeBatches ==
    /\ pc = "batch"
    /\ batches' = make_batches(cables)
    /\ next_i' = 1
    /\ pc' = "sheets"
    /\ UNCHANGED <<args, env, cables, fs, generated_files, saveas_calls, exit_status>>
    /\ UNCHANGED <<recVars, parseVars, gridVars>>

\* lines 399-409, 251-253: one sheet is saved
Sheet ==
    /\ pc = "sheets"
    /\ LET filename == sheet_filename(next_i)
       IN /\ saveas_calls' = Append(saveas_calls, filename)
          /\ fs' = saved(fs, filename,
                         sheet_dxf(batches[next_i], sheet_labels_per_row, sheet_label_width,
                                   sheet_label_height, sheet_spacing))
          /\ generated_files' = Append(generated_files, filename)
    /\ next_i' = IF next_i < Len(batches) THEN next_i + 1 ELSE next_i
    /\ pc' = IF next_i < Len(batches) THEN "sheets" ELSE "summary"
    /\ UNCHANGED <<args, env, cables, batches, exit_status>>
    /\ UNCHANGED <<recVars, parseVars, gridVars>>

\* line 252: doc.saveas raises, uncaught as for an individual label
SheetSaveRaises ==
    /\ pc = "sheets"
    /\ saveas_calls' = Append(saveas_calls, sheet_filename(next_i))
    /\ pc' = "exited"
    /\ exit_status' = 1
    /\ UNCHANGED <<args, env, cables, batches, next_i, fs, generated_files>>
    /\ UNCHANGED <<recVars, parseVars, gridVars>>

\* lines 413-421, 447: the summary is printed, main returns, status 0
Summary ==
    /\ pc = "summary"
    /\ prints(env.stdout, abspath(env.cwd, args.output))
    /\ pc' = "exited"
    /\ exit_status' = 0
    /\ UNCHANGED <<args, env, cables, batches, next_i, fs, generated_files, saveas_calls>>
    /\ UNCHANGED <<recVars, parseVars, gridVars>>

\* line 418: print raises for the absolute path of the output directory, all
\* files having been written; the run ends with status 1
SummaryEncodeRaises ==
    /\ pc = "summary"
    /\ ~prints(env.stdout, abspath(env.cwd, args.output))
    /\ pc' = "exited"
    /\ exit_status' = 1
    /\ UNCHANGED <<args, env, cables, batches, next_i, fs, generated_files, saveas_calls>>
    /\ UNCHANGED <<recVars, parseVars, gridVars>>

-----------------------------------------------------------------------------
(* Specifications: one per part of the program.  The variables of the other *)
(* parts rest at fixed values.                                              *)

RecIdle == rec = NewCable(SomeId, << >>, << >>, << >>)
ParseIdle ==
    /\ csvFile = EmptyFile
    /\ parsed = << >>
    /\ parsePc = "idle"
GridIdle ==
    /\ gridArgs = [count |-> 0, labels_per_row |-> 1, label_width |-> 0,
                   label_height |-> 0, spacing |-> 0]
    /\ drawn = << >>
RunIdle ==
    /\ args = [exists |-> FALSE, individual |-> FALSE, no_combined |-> TRUE,
               csv_file |-> Text("cables.csv"), output |-> Text("output")]
    /\ env = [makedirs_ok |-> TRUE, file |-> EmptyFile,
              stdout |-> [encoding |-> "utf-8", errors |-> "strict"],
              cwd |-> Text("/work")]
    /\ pc = "idle"
    /\ cables = << >>
    /\ batches = << >>
    /\ next_i = 1
    /\ fs = << >>
    /\ generated_files = << >>
    /\ saveas_calls = << >>
    /\ exit_status = 0

SpecRecordInit == RecInit /\ ParseIdle /\ GridIdle /\ RunIdle
SpecRecordNext == AssignSpecification
SpecRecord == SpecRecordInit /\ [][SpecRecordNext]_vars

SpecParseInit == RecIdle /\ ParseInit /\ GridIdle /\ RunIdle
SpecParseNext == ParseCsv
SpecParse == SpecParseInit /\ [][SpecParseNext]_vars

SpecGridInit == RecIdle /\ ParseIdle /\ GridInit /\ RunIdle
SpecGridNext == DrawLabel
SpecGrid == SpecGridInit /\ [][SpecGridNext]_vars

Init == RecIdle /\ ParseIdle /\ GridIdle /\ RunInit
Next ==
    \/ MainFileNotFound
    \/ MainMakedirsRaises
    \/ MainStart
    \/ BannerEncodeRaises
    \/ ParseNoCables
    \/ ParseCables
    \/ FoundEncodeRaises
    \/ IndividualLabel
    \/ IndividualSaveRaises
    \/ ComputeBatches
    \/ Sheet
    \/ SheetSaveRaises
    \/ Summary
    \/ SummaryEncodeRaises
Spec == Init /\ [][Next]_vars

-----------------------------------------------------------------------------
(* Claims *)

\* the smallest n with n * b >= a
CeilDiv(a, b) == CHOOSE n \in 0..a : n * b >= a /\ (n - 1) * b < a

\* text t neither starts nor ends with whitespace
Trimmed(t) == t = << >> \/ (t[1] \notin Whitespace /\ t[Len(t)] \notin Whitespace)

\* t with the leading literal p removed when t starts with it
WithoutLeading(t, p) == IF StartsWith(t, p) THEN SubSeq(t, Len(p) + 1, Len(t)) ELSE t

\* what the specification sections say size and type are for specification s
SizeOf(s) ==
    LET tokens == split(s) IN
    IF tokens # << >> /\ Contains(tokens[1], mm) THEN tokens[1] ELSE << >>
TypeOf(s) ==
    LET tokens == split(s) IN
    IF Len(tokens) > 1 THEN join(Text(" "), Tail(tokens)) ELSE << >>

\* ---- C1
\* C1: once generate_all_labels has computed the batches of a non-empty cable
\* list of length L, there are ceil(L/18) of them, each but the last holds 18
\* cables, the last holds 1 to 18, and their concatenation is the cable list;
\* the k-th sheet written holds the cables of the k-th batch in order, and when
\* the sheet loop is over one sheet per batch has been written.
SheetsWritten ==
    Len(generated_files) - (IF args.individual THEN Len(cables) ELSE 0)
C1_Batching ==
    batches # << >> =>
        /\ Len(batches) = CeilDiv(Len(cables), 18)
        /\ \A k \in 1..(Len(batches) - 1) : Len(batches[k]) = 18
        /\ Len(batches[Len(batches)]) \in 1..18
        /\ Concat(batches) = cables
        /\ \A k \in 1..SheetsWritten :
              /\ sheet_filename(k) \in DOMAIN fs
              /\ [i \in 1..Len(fs[sheet_filename(k)].labels) |->
                     fs[sheet_filename(k)].labels[i].cable_id]
                 = [i \in 1..Len(batches[k]) |-> batches[k][i].cable_id]
        /\ pc = "summary" => SheetsWritten = Len(batches)
\* a run of 37 cables has written its three sheets, the last of one cable
C1_Witness ==
    /\ pc = "summary"
    /\ Len(cables) = 37
    /\ Len(batches) = 3
    /\ Len(batches[3]) = 1
    /\ SheetsWritten = 3

\* every message of the run can be written to stdout
MessagesEncodable ==
    /\ banner_prints(env.stdout, args.csv_file, args.output)
    /\ prints(env.stdout, abspath(env.cwd, args.output))
    /\ \A c \in {CHECK_MARK, CROSS_MARK, ARROW} : encodable(env.stdout, c)
    /\ \A i \in 1..Len(cables) :
          /\ prints(env.stdout, cables[i].cable_id)
          /\ prints(env.stdout, cables[i].specification)
          /\ prints(env.stdout, cables[i].origin \o cables[i].destination)

\* ---- C2
ExpectedSaves ==
    (IF args.individual THEN Len(cables) ELSE 0)
    + (IF combined THEN CeilDiv(Len(cables), 18) ELSE 0)
\* C2: a run over a non-empty cable list has, when it ends, attempted every
\* individual file and every sheet file, whether or not a save failed on the way.
\* Stated for the runs whose messages can all be printed, so that the run that
\* refutes it is one that fails while writing an output file.
C2_RunContinuesAfterWriteFailure ==
    (pc = "exited" /\ cables # << >> /\ MessagesEncodable) => Len(saveas_calls) = ExpectedSaves

\* ---- C3
\* C3: the exit status is nonzero exactly when the input path does not exist.
\* Stated for the runs whose output directory was created and whose messages
\* can all be printed, so that the run that refutes it is one that fails while
\* writing an output file.
C3_ExitStatus ==
    (pc = "exited" /\ env.makedirs_ok /\ MessagesEncodable) =>
        ((exit_status # 0) <=> ~args.exists)

\* ---- C4
\* the text of the file, read as UTF-8
FileText(file) == universal_newlines(utf_8_decode(file.bytes).text)
\* the rows of the file as csv.reader reads them
FileRows(file) == csv_reader(FileText(file)).rows
\* the file's first row is the 4-column header and is recognised as one, every
\* data row has at least four fields and a non-empty trimmed id, and the first
\* encoding reads the file through
C4_Shape(file) ==
    /\ ~attempt_raises(file, 1)
    /\ FileRows(file) # << >>
    /\ FileRows(file)[1] = HeaderRow
    /\ has_header(FileText(file))
    /\ \A k \in 2..Len(FileRows(file)) :
          Len(FileRows(file)[k]) >= 4 /\ strip(FileRows(file)[k][1]) # << >>
\* C4: parse_csv of such a file of N data rows returns N records in row order,
\* record k holding the trimmed columns 0 and 1 and the trimmed columns 2 and 3
\* less a leading "ORIGIN: " / "DESTINATION: " only.
C4_RoundTrip ==
    (parsePc = "parsed" /\ C4_Shape(csvFile)) =>
        /\ Len(parsed) = Len(FileRows(csvFile)) - 1
        /\ \A k \in 1..Len(parsed) :
              LET row == FileRows(csvFile)[k + 1] IN
              /\ parsed[k].cable_id = strip(row[1])
              /\ parsed[k].specification = strip(row[2])
              /\ parsed[k].origin = WithoutLeading(strip(row[3]), ORIGIN_PREFIX)
              /\ parsed[k].destination = WithoutLeading(strip(row[4]), DESTINATION_PREFIX)

\* ---- C5
\* C5: at every point of a record's life, after construction with any
\* arguments and after any later assignment to specification, size is the
\* first token of the current specification if it contains "mm" and empty
\* otherwise, and type is the remaining tokens joined by single spaces (both
\* empty for a specification without tokens).
C5_DerivedAlways ==
    /\ rec.size = SizeOf(rec.specification)
    /\ rec.type = TypeOf(rec.specification)

\* ---- C6
\* C6: the label of flat index i is drawn at x = spacing + (i mod cols)*(w+spacing),
\* y = total_height - ((i div cols)+1)*(h+spacing), total_height =
\* ceil(count/cols)*(h+spacing)+spacing: index 0 is the top-left cell, within a
\* row x grows with the index, index cols starts the second row, for 3 columns
\* index 2 is the top-right cell, and no label is above one of smaller index.
C6_GridPlacement ==
    LET cols == gridArgs.labels_per_row
        w == gridArgs.label_width
        h == gridArgs.label_height
        sp == gridArgs.spacing
        th == CeilDiv(gridArgs.count, cols) * (h + sp) + sp
    IN \A i \in 1..Len(drawn) :
          /\ drawn[i].x = sp + ((i - 1) % cols) * (w + sp)
          /\ drawn[i].y = th - (((i - 1) \div cols) + 1) * (h + sp)
          /\ i = 1 => (drawn[i].x = sp /\ drawn[i].y + h + sp = th)
          /\ (cols = 3 /\ i = 3) =>
                (drawn[i].x = sp + 2 * (w + sp) /\ drawn[i].y = drawn[1].y)
          /\ i = cols + 1 =>
                (drawn[i].x = sp /\ drawn[i].y = drawn[1].y - (h + sp))
          /\ \A j \in 1..Len(drawn) :
                j > i => /\ drawn[j].y <= drawn[i].y
                         /\ drawn[j].y = drawn[i].y => drawn[j].x > drawn[i].x
\* a 3-column sheet of 7 labels (three rows, the last of one label) fully drawn
C6_Witness ==
    /\ gridArgs.labels_per_row = 3
    /\ gridArgs.count = 7
    /\ Len(drawn) = 7
    /\ drawn[7].y < drawn[4].y
    /\ drawn[4].y < drawn[1].y

\* ---- C7
\* C7: no field of a record parse_csv returns starts or ends with whitespace.
C7_FieldsTrimmed ==
    parsePc = "parsed" =>
        \A k \in 1..Len(parsed) :
            /\ Trimmed(parsed[k].cable_id)
            /\ Trimmed(parsed[k].specification)
            /\ Trimmed(parsed[k].origin)
            /\ Trimmed(parsed[k].destination)

\* ---- C8
\* C8: a run in individual mode over records with pairwise distinct ids that
\* ends normally leaves as many distinct files as the summary counts.
C8_OneFilePerRecord ==
    ( /\ pc = "exited"
      /\ exit_status = 0
      /\ args.individual
      /\ cables # << >>
      /\ \A i, j \in 1..Len(cables) :
            i # j => cables[i].cable_id # cables[j].cable_id )
    => Cardinality(DOMAIN fs) = Len(generated_files)

\* ---- C9
\* C9: when some encoding attempt reads the file through, parse_csv returns the
\* records of that attempt alone: one record per kept row, in row order.
C9_SuccessfulAttemptOnly ==
    (parsePc = "parsed" /\ \E e \in 1..Len(encodings) : ~attempt_raises(csvFile, e)) =>
        LET e == CHOOSE e \in 1..Len(encodings) :
                    /\ ~attempt_raises(csvFile, e)
                    /\ \A earlier \in 1..(e - 1) : attempt_raises(csvFile, earlier)
        IN parsed = rows_cables(attempt_rows(csvFile, e))

\* ---- C10
Inside(hole, outline) ==
    /\ 4 * outline.x1 <= hole.x1 /\ hole.x2 <= 4 * outline.x2
    /\ 4 * outline.y1 <= hole.y1 /\ hole.y2 <= 4 * outline.y2
    /\ hole.x1 < hole.x2 /\ hole.y1 < hole.y2
Apart(a, b, d) ==
    \/ a.x2 + d <= b.x1 \/ b.x2 + d <= a.x1
    \/ a.y2 + d <= b.y1 \/ b.y2 + d <= a.y1
\* C10: on every sheet written, of 1 to 18 labels, each 180x45 outline lies in
\* the 600x300 canvas with x >= 2 and y >= 2, two different outlines are
\* separated by at least 2 along an axis, and each label's four holes lie
\* inside its outline.
C10_SheetGeometry ==
    \A name \in DOMAIN fs :
        fs[name].kind = "sheet" =>
            LET labels == fs[name].labels IN
            /\ Len(labels) \in 1..18
            /\ \A i \in 1..Len(labels) :
                  LET o == labels[i].outline IN
                  /\ o.x2 - o.x1 = 180 /\ o.y2 - o.y1 = 45
                  /\ o.x1 >= 2 /\ o.y1 >= 2
                  /\ o.x2 <= canvas_width /\ o.y2 <= canvas_height
                  /\ Len(labels[i].holes) = 4
                  /\ \A k \in 1..4 : Inside(labels[i].holes[k], o)
                  /\ \A j \in 1..Len(labels) :
                        j # i => Apart(o, labels[j].outline, 2)
\* a full sheet of 18 labels has been written
C10_Witness ==
    \E name \in DOMAIN fs :
        fs[name].kind = "sheet" /\ Len(fs[name].labels) = 18

=============================================================================
